---- MODULE Spec2Model ----
\* A model of the mmdbwriter search tree (Tree in tree.go): construction with
\* Options, Insert, Get, Finalize and WriteTo, the record packer copyRecord and
\* the IPv4-in-IPv6 address normalisation.  The trie node (node.insert, node.get,
\* node.finalize, node.isLeaf) and the data writer are not part of the source
\* files at hand; they are modelled from the specification's sections 4.1, 4.2
\* and 4.4.
EXTENDS Integers, Sequences, FiniteSets, TLC

VARIABLES
    pc,          \* "new" before New is called, "ready" with a Tree, "failed" when New erred
    ipVersion,   \* Tree.ipVersion
    recordSize,  \* Tree.recordSize
    treeDepth,   \* Tree.treeDepth
    root,        \* Tree.root
    nodeCount,   \* Tree.nodeCount
    buildEpoch,  \* Tree.buildEpoch
    lastOp,      \* the operation that ran last
    lastArg,     \* its arguments, as a tuple
    lastErr,     \* the error it returned ("none" for nil)
    getNet,      \* the *net.IPNet returned by the last Get
    getValue,    \* the *DataType returned by the last Get
    numBytes,    \* the byte count returned by the last WriteTo
    out,         \* the node records the last WriteTo handed to the sink, in order
    inserted,    \* history: the (network, value) pairs of the Inserts that returned nil
    finalized,   \* history: Finalize ran after construction and after the latest Insert call
    voided,      \* history: a finalization was undone by Inserts that all failed
    pk           \* input and output of the record packer under SpecPack

vars == <<pc, ipVersion, recordSize, treeDepth, root, nodeCount, buildEpoch, lastOp, lastArg,
          lastErr, getNet, getValue, numBytes, out, inserted, finalized, voided, pk>>

\* ---------------------------------------------------------------- bounds

\* the number of successful Inserts a behaviour may hold
MaxInserts == 2

\* how far around each byte and nibble boundary the packer's inputs are drawn
PackSpread == 1

\* the number of bits an address byte carries in the model (8 in the source).
\* Every width the source writes in address bits is a number of bytes times
\* this: 32 is IPv4Bits, 128 is IPv6Bits, 96 is V4Offset, 0xff is ByteMax.
ByteBits == 1

\* ---------------------------------------------------------------- integers

Pow2(k) == 2 ^ k

\* x >> k on a non-negative Go int
Shr(x, k) == x \div Pow2(k)

\* x & 0xFF and x & 0x0F on a non-negative Go int
And255(x) == x % 256

And15(x) == x % 16

\* ---------------------------------------------------------------- net.IP

IPv4len == 4

v4Prefix == <<0, 0, 0, 0, 0, 0, 0, 0, 0, 0, 0, 0>>

IPv6len == Len(v4Prefix) + IPv4len

ByteMax == Pow2(ByteBits) - 1

\* the tree depths New sets (32 and 128) and the prefix-length shift of Insert
\* and Get (96)
IPv4Bits == IPv4len * ByteBits

IPv6Bits == IPv6len * ByteBits

V4Offset == Len(v4Prefix) * ByteBits

Nil == "nil"

ipV4ToV6(ip) == v4Prefix \o ip

\* net.IP.To4: a 4-byte address is itself, a 16-byte address in ::ffff:a.b.c.d
\* form is its last four bytes, anything else is nil (the empty sequence)
To4(ip) ==
    IF Len(ip) = IPv4len THEN ip
    ELSE IF /\ Len(ip) = IPv6len
            /\ \A i \in 1..10 : ip[i] = 0
            /\ ip[11] = ByteMax
            /\ ip[12] = ByteMax
         THEN SubSeq(ip, 13, 16)
         ELSE <<>>

\* bit number depth of the address, most significant bit of byte 0 first
bitAt(ip, depth) ==
    Shr(ip[(depth \div ByteBits) + 1], (ByteBits - 1) - (depth % ByteBits)) % 2

\* net.CIDRMask(ones, bits): nil unless bits is the length of an IPv4 or an IPv6
\* address and 0 <= ones <= bits
MaskByte(ones, i) ==
    IF ones >= ByteBits * i THEN ByteMax
    ELSE IF ones <= ByteBits * (i - 1) THEN 0
    ELSE Pow2(ByteBits) - Pow2(ByteBits * i - ones)

CIDRMask(ones, bits) ==
    IF (bits # IPv4Bits /\ bits # IPv6Bits) \/ ones < 0 \/ ones > bits THEN <<>>
    ELSE [i \in 1..(bits \div ByteBits) |-> MaskByte(ones, i)]

\* b & m for a mask byte m of the form 1..10..0
AndMaskByte(b, m) == b - (b % (Pow2(ByteBits) - m))

\* net.IP.Mask: a 16-byte mask with twelve leading 0xff bytes is cut to four
\* bytes for a 4-byte address, a v4-mapped 16-byte address is cut to four bytes
\* for a 4-byte mask, and unequal lengths give nil
IPMask(ip, mask) ==
    LET m1 == IF /\ Len(mask) = IPv6len
                 /\ Len(ip) = IPv4len
                 /\ \A i \in 1..12 : mask[i] = ByteMax
              THEN SubSeq(mask, 13, 16) ELSE mask
        ip1 == IF /\ Len(m1) = IPv4len
                  /\ Len(ip) = IPv6len
                  /\ To4(ip) # <<>>
               THEN SubSeq(ip, 13, 16) ELSE ip
    IN IF Len(ip1) # Len(m1) THEN <<>>
       ELSE [i \in 1..Len(ip1) |-> AndMaskByte(ip1[i], m1[i])]

\* net.IPMask.Size on a canonical mask: the number of leading one bits
RECURSIVE MaskOnes(_)
MaskOnes(mask) ==
    IF mask = <<>> THEN 0
    ELSE IF Head(mask) = ByteMax THEN ByteBits + MaskOnes(Tail(mask))
    ELSE CHOOSE k \in 0..(ByteBits - 1) : MaskByte(k, 1) = Head(mask)

\* ---------------------------------------------------------------- node

\* a node: children is <<>> (both nil) or <<left, right>>, value is Nil or a
\* data value, nodeNum is the number Finalize gave it (0 before)
emptyNode == [children |-> <<>>, value |-> Nil, nodeNum |-> 0]

isLeaf(n) == n.children = <<>>

\* node.insert: walk the address bits down to depth prefixLen, turning every
\* leaf on the way into a node whose two children carry the leaf's value, and
\* put a valued leaf in place of whatever is found at depth prefixLen
materialize(n) ==
    IF isLeaf(n)
    THEN [children |-> <<[children |-> <<>>, value |-> n.value, nodeNum |-> 0],
                         [children |-> <<>>, value |-> n.value, nodeNum |-> 0]>>,
          value |-> Nil, nodeNum |-> 0]
    ELSE n

RECURSIVE nodeInsert(_, _, _, _, _)
nodeInsert(n, ip, prefixLen, depth, value) ==
    IF depth = prefixLen
    THEN [children |-> <<>>, value |-> value, nodeNum |-> 0]
    ELSE [materialize(n) EXCEPT !.children[bitAt(ip, depth) + 1] =
              nodeInsert(@, ip, prefixLen, depth + 1, value)]

\* node.get: descend along the address bits to the first leaf; its depth and value
RECURSIVE nodeGet(_, _, _)
nodeGet(n, ip, depth) ==
    IF isLeaf(n) THEN [prefixLen |-> depth, value |-> n.value]
    ELSE nodeGet(n.children[bitAt(ip, depth) + 1], ip, depth + 1)

\* node.finalize: the number of internal nodes under n is what finalize adds
\* to the current number; the internal nodes get the numbers from currentNum
\* on in pre-order (the node, its left subtree, its right subtree)
RECURSIVE finalizeCount(_)
finalizeCount(n) ==
    IF isLeaf(n) THEN 0
    ELSE 1 + finalizeCount(n.children[1]) + finalizeCount(n.children[2])

RECURSIVE nodeFinalize(_, _)
nodeFinalize(n, currentNum) ==
    IF isLeaf(n) THEN n
    ELSE [children |-> <<nodeFinalize(n.children[1], currentNum + 1),
                         nodeFinalize(n.children[2],
                                      currentNum + 1 + finalizeCount(n.children[1]))>>,
          value |-> n.value,
          nodeNum |-> currentNum]

\* ---------------------------------------------------------------- data values

\* the data values of the model: a one-character string and a bytes value of
\* 2^24 octets
Values == {"A", "BIG"}

PayloadLen(v) == IF v = "A" THEN 1 ELSE Pow2(24)

\* the control byte and the length bytes that follow it (section 4.4's ladder)
ControlLen(len) ==
    IF len <= 28 THEN 1
    ELSE IF len < 285 THEN 2
    ELSE IF len < 65821 THEN 3
    ELSE 4

EncodedLen(v) == ControlLen(PayloadLen(v)) + PayloadLen(v)

\* the number of significant bytes of a non-negative integer below 2^31
SigBytes(x) ==
    IF x = 0 THEN 0
    ELSE IF x < Pow2(8) THEN 1
    ELSE IF x < Pow2(16) THEN 2
    ELSE IF x < Pow2(24) THEN 3
    ELSE 4

\* ---------------------------------------------------------------- dataWriter

\* newDataWriter: an empty buffer and an empty pool
newDataWriter == [size |-> 0, offsets |-> <<>>]

\* the pool as a sequence of <<value, offset>> pairs
Pooled(dw, v) == \E i \in 1..Len(dw.offsets) : dw.offsets[i][1] = v

PoolOffset(dw, v) ==
    dw.offsets[CHOOSE i \in 1..Len(dw.offsets) : dw.offsets[i][1] = v][2]

\* dataWriter.write: the offset of the value, emitting it unless it is pooled
dataWriterWrite(dw, v) ==
    IF Pooled(dw, v)
    THEN [dw |-> dw, offset |-> PoolOffset(dw, v)]
    ELSE [dw |-> [size |-> dw.size + EncodedLen(v),
                  offsets |-> Append(dw.offsets, <<v, dw.size>>)],
          offset |-> dw.size]

\* ---------------------------------------------------------------- Tree

\* New: the defaults, the options that are set, then the ip-version switch
\* (now is time.Now().Unix()); without a Tree every field is zero
New(opts, now) ==
    LET ipv == IF opts.IPVersion # 0 THEN opts.IPVersion ELSE 6
        rs == IF opts.RecordSize # 0 THEN opts.RecordSize ELSE 28
        be == IF opts.BuildEpoch # 0 THEN opts.BuildEpoch ELSE now
    IN IF ipv = 6
       THEN [err |-> "none", ipVersion |-> ipv, recordSize |-> rs,
             buildEpoch |-> be, treeDepth |-> IPv6Bits, root |-> emptyNode]
       ELSE IF ipv = 4
       THEN [err |-> "none", ipVersion |-> ipv, recordSize |-> rs,
             buildEpoch |-> be, treeDepth |-> IPv4Bits, root |-> emptyNode]
       ELSE [err |-> "UnsupportedIPVersion", ipVersion |-> 0, recordSize |-> 0,
             buildEpoch |-> 0, treeDepth |-> 0, root |-> emptyNode]

\* Insert on a Tree of depth depth0 with root rt and node count nc: the error,
\* the root and the node count it leaves.  InsertNoReset resets the node count
\* only once the prefix length is accepted; InsertNoCheck accepts every prefix
\* length.
InsertNoReset(depth0, rt, nc, network, value) ==
    LET prefixLen == MaskOnes(network.Mask)
        v4 == depth0 = IPv6Bits /\ Len(network.IP) = IPv4len
        ip == IF v4 THEN ipV4ToV6(network.IP) ELSE network.IP
        pl == IF v4 THEN prefixLen + V4Offset ELSE prefixLen
    IN IF prefixLen = 0
       THEN [err |-> "InvalidPrefix", root |-> rt, nodeCount |-> nc]
       ELSE [err |-> "none", root |-> nodeInsert(rt, ip, pl, 0, value), nodeCount |-> 0]

InsertNoCheck(depth0, rt, nc, network, value) ==
    LET prefixLen == MaskOnes(network.Mask)
        v4 == depth0 = IPv6Bits /\ Len(network.IP) = IPv4len
        ip == IF v4 THEN ipV4ToV6(network.IP) ELSE network.IP
        pl == IF v4 THEN prefixLen + V4Offset ELSE prefixLen
    IN [err |-> "none", root |-> nodeInsert(rt, ip, pl, 0, value), nodeCount |-> 0]

Insert(depth0, rt, nc, network, value) ==
    LET prefixLen == MaskOnes(network.Mask)
        v4 == depth0 = IPv6Bits /\ Len(network.IP) = IPv4len
        ip == IF v4 THEN ipV4ToV6(network.IP) ELSE network.IP
        pl == IF v4 THEN prefixLen + V4Offset ELSE prefixLen
    IN IF prefixLen = 0
       THEN [err |-> "InvalidPrefix", root |-> rt, nodeCount |-> 0]
       ELSE [err |-> "none", root |-> nodeInsert(rt, ip, pl, 0, value), nodeCount |-> 0]

\* Get on a Tree of depth depth0 with root rt: the network and the value
Get(depth0, rt, ip) ==
    LET ipv4 == To4(ip)
        lookupIP == IF depth0 = IPv6Bits /\ ipv4 # <<>> THEN ipV4ToV6(ipv4) ELSE ip
        got == nodeGet(rt, lookupIP, 0)
        prefixLen == IF got.prefixLen >= V4Offset /\ Len(ip) = IPv4len
                     THEN got.prefixLen - V4Offset
                     ELSE got.prefixLen
        mask == CIDRMask(prefixLen, depth0)
    IN [net |-> [IP |-> IPMask(ip, mask), Mask |-> mask], value |-> got.value]

\* Finalize: the numbered root and the node count
Finalize(rt) == [root |-> nodeFinalize(rt, 0), nodeCount |-> finalizeCount(rt)]

\* ---------------------------------------------------------------- writer

\* len(dataSectionSeparator) and len(metadataStartMarker)
dataSectionSeparatorLen == 16

metadataStartMarkerLen == 14

\* the bytes copyRecord's switch puts into the record buffer for the record
\* values left and right; the empty sequence for an unsupported record size.
\* packRecordSwapped puts the two nibbles of the 28-bit layout the other way round.
packRecordSwapped(rs, left, right) ==
    IF rs = 24
    THEN <<And255(Shr(left, 16)), And255(Shr(left, 8)), And255(left),
           And255(Shr(right, 16)), And255(Shr(right, 8)), And255(right)>>
    ELSE IF rs = 28
    THEN <<And255(Shr(left, 16)), And255(Shr(left, 8)), And255(left),
           (And15(Shr(right, 24)) * 16 + And15(Shr(left, 24))) % 256,
           And255(Shr(right, 16)), And255(Shr(right, 8)), And255(right)>>
    ELSE IF rs = 32
    THEN <<And255(Shr(left, 24)), And255(Shr(left, 16)), And255(Shr(left, 8)),
           And255(left),
           And255(Shr(right, 24)), And255(Shr(right, 16)), And255(Shr(right, 8)),
           And255(right)>>
    ELSE <<>>

packRecord(rs, left, right) ==
    IF rs = 24
    THEN <<And255(Shr(left, 16)), And255(Shr(left, 8)), And255(left),
           And255(Shr(right, 16)), And255(Shr(right, 8)), And255(right)>>
    ELSE IF rs = 28
    THEN <<And255(Shr(left, 16)), And255(Shr(left, 8)), And255(left),
           (And15(Shr(left, 24)) * 16 + And15(Shr(right, 24))) % 256,
           And255(Shr(right, 16)), And255(Shr(right, 8)), And255(right)>>
    ELSE IF rs = 32
    THEN <<And255(Shr(left, 24)), And255(Shr(left, 16)), And255(Shr(left, 8)),
           And255(left),
           And255(Shr(right, 24)), And255(Shr(right, 16)), And255(Shr(right, 8)),
           And255(right)>>
    ELSE <<>>

\* recordValueForNode: the record value of a child, and the data writer after it
recordValueForNode(nc, n, dw) ==
    IF isLeaf(n)
    THEN IF n.value # Nil
         THEN LET w == dataWriterWrite(dw, n.value)
              IN [value |-> nc + dataSectionSeparatorLen + w.offset, dw |-> w.dw]
         ELSE [value |-> nc, dw |-> dw]
    ELSE [value |-> n.nodeNum, dw |-> dw]

\* copyRecord: both record values, then the switch on the record size
copyRecord(rs, nc, children, dw) ==
    LET l == recordValueForNode(nc, children[1], dw)
        r == recordValueForNode(nc, children[2], l.dw)
    IN [err |-> IF rs \in {24, 28, 32} THEN "none" ELSE "UnsupportedRecordSize",
        buf |-> packRecord(rs, l.value, r.value),
        left |-> l.value, right |-> r.value, dw |-> r.dw]

\* what a WriteTo has done so far: the nodes and bytes written, the error, the
\* data writer, and the records handed to the sink, each with the node it
\* belongs to and the record values packed into it
startWrite(dw) == [nodes |-> 0, bytes |-> 0, err |-> "none", dw |-> dw, recs |-> <<>>]

\* the part of writeNode that is the node's own: copyRecord, then the record
\* buffer written to the sink (a sink that takes every byte)
writeRecord(rs, nc, n, st) ==
    LET c == copyRecord(rs, nc, n.children, st.dw)
    IN IF c.err # "none"
       THEN [st EXCEPT !.err = c.err, !.dw = c.dw]
       ELSE [nodes |-> st.nodes + 1,
             bytes |-> st.bytes + Len(c.buf),
             err |-> "none",
             dw |-> c.dw,
             recs |-> Append(st.recs, [nodeNum |-> n.nodeNum, left |-> c.left,
                                       right |-> c.right, buf |-> c.buf])]

\* writeNode, continuing the write st: nothing for a leaf and nothing after an
\* error; else the node's record, then the left subtree, then the right one.
\* writeNodeRightFirst walks the right subtree before the left one.
RECURSIVE writeNodeRightFirst(_, _, _, _)
writeNodeRightFirst(rs, nc, n, st) ==
    IF isLeaf(n) \/ st.err # "none" THEN st
    ELSE writeNodeRightFirst(rs, nc, n.children[1],
             writeNodeRightFirst(rs, nc, n.children[2], writeRecord(rs, nc, n, st)))

RECURSIVE writeNode(_, _, _, _)
writeNode(rs, nc, n, st) ==
    IF isLeaf(n) \/ st.err # "none" THEN st
    ELSE writeNode(rs, nc, n.children[2],
             writeNode(rs, nc, n.children[1], writeRecord(rs, nc, n, st)))

\* writeMetadata: the length of the encoded metadata map (nine keys; the
\* database type, the description and the languages are empty)
writeMetadata(rs, nc, ipv, epoch) ==
    LET keys == (1 + 27) + (1 + 27) + (1 + 11) + (1 + 13) + (1 + 11) + (1 + 10)
                + (1 + 9) + (1 + 10) + (1 + 11)
    IN 1 + keys
       + (1 + SigBytes(2)) + (1 + SigBytes(0)) + (2 + SigBytes(epoch))
       + 1 + 1 + (1 + SigBytes(ipv)) + 2 + (1 + SigBytes(nc))
       + (1 + SigBytes(rs))

\* WriteTo: the byte count, the error and the node records written
WriteTo(rs, nc, ipv, rt, epoch) ==
    IF nc = 0
    THEN [n |-> 0, err |-> "NotFinalized", recs |-> <<>>]
    ELSE LET w == writeNode(rs, nc, rt, startWrite(newDataWriter))
         IN IF w.err # "none"
            THEN [n |-> w.bytes, err |-> w.err, recs |-> w.recs]
            ELSE IF w.nodes # nc
            THEN [n |-> w.bytes, err |-> "InternalInconsistency", recs |-> w.recs]
            ELSE [n |-> w.bytes + dataSectionSeparatorLen + w.dw.size
                        + metadataStartMarkerLen
                        + writeMetadata(rs, nc, ipv, epoch),
                  err |-> "none", recs |-> w.recs]

\* ---------------------------------------------------------------- inputs

\* the Options New is called with, and the clock it reads
OptionsSet ==
    {[IPVersion |-> 0, RecordSize |-> 0, BuildEpoch |-> 0],
     [IPVersion |-> 4, RecordSize |-> 24, BuildEpoch |-> 0],
     [IPVersion |-> 4, RecordSize |-> 16, BuildEpoch |-> 1500000000],
     [IPVersion |-> 5, RecordSize |-> 32, BuildEpoch |-> 0]}

Clock == {1600000000}

\* a network as net.ParseCIDR returns it: the address and a mask of its length
Net(ip, ones) == [IP |-> ip, Mask |-> CIDRMask(ones, ByteBits * Len(ip))]

\* 4-byte networks: the whole address space, one of one byte and one of two
\* bytes inside it; a 16-byte network of three bytes
Net0 == Net(<<0, 0, 0, 0>>, 0)

Net4Short == Net(<<1, 0, 0, 0>>, ByteBits)

Net4Long == Net(<<1, 1, 0, 0>>, 2 * ByteBits)

Net6 == Net(<<0, 1, 1, 0, 0, 0, 0, 0, 0, 0, 0, 0, 0, 0, 0, 0>>, 3 * ByteBits)

Networks == {Net0, Net4Short, Net4Long, Net6}

\* 4-byte addresses inside Net4Long and inside Net4Short only, the first of
\* them as net.ParseIP returns it (::ffff:a.b.c.d), and the 4-byte address that
\* is the first four bytes of an address of Net6
Addr1 == <<1, 1, 0, 1>>

Addr2 == <<1, 0, 1, 1>>

Addr1Parsed == <<0, 0, 0, 0, 0, 0, 0, 0, 0, 0, ByteMax, ByteMax, 1, 1, 0, 1>>

Addr3 == <<0, 1, 1, 0>>

Addrs == {Addr1, Addr2, Addr1Parsed, Addr3}

NoNet == [IP |-> <<>>, Mask |-> <<>>]

\* ---------------------------------------------------------------- actions

Init ==
    /\ pc = "new"
    /\ ipVersion = 0
    /\ recordSize = 0
    /\ treeDepth = 0
    /\ root = emptyNode
    /\ nodeCount = 0
    /\ buildEpoch = 0
    /\ lastOp = "none"
    /\ lastArg = <<>>
    /\ lastErr = "none"
    /\ getNet = NoNet
    /\ getValue = Nil
    /\ numBytes = 0
    /\ out = <<>>
    /\ inserted = <<>>
    /\ finalized = FALSE
    /\ voided = FALSE
    /\ pk = Nil

DoNew(opts, now) ==
    /\ pc = "new"
    /\ LET t == New(opts, now)
       IN /\ pc' = IF t.err = "none" THEN "ready" ELSE "failed"
          /\ ipVersion' = t.ipVersion
          /\ recordSize' = t.recordSize
          /\ treeDepth' = t.treeDepth
          /\ root' = t.root
          /\ buildEpoch' = t.buildEpoch
          /\ lastErr' = t.err
    /\ lastOp' = "New"
    /\ lastArg' = <<opts>>
    /\ UNCHANGED <<nodeCount, getNet, getValue, numBytes, out, inserted, finalized,
                   voided, pk>>

DoInsert(network, value) ==
    /\ pc = "ready"
    /\ LET r == Insert(treeDepth, root, nodeCount, network, value)
       IN /\ r.err = "none" => Len(inserted) < MaxInserts
          /\ root' = r.root
          /\ nodeCount' = r.nodeCount
          /\ lastErr' = r.err
          /\ inserted' = IF r.err = "none"
                         THEN Append(inserted, [network |-> network, value |-> value])
                         ELSE inserted
    /\ lastOp' = "Insert"
    /\ lastArg' = <<network, value>>
    /\ finalized' = FALSE
    /\ voided' = (lastErr' # "none" /\ (finalized \/ voided))
    /\ getNet' = NoNet
    /\ getValue' = Nil
    /\ numBytes' = 0
    /\ out' = <<>>
    /\ UNCHANGED <<pc, ipVersion, recordSize, treeDepth, buildEpoch, pk>>

DoGet(ip) ==
    /\ pc = "ready"
    /\ LET g == Get(treeDepth, root, ip)
       IN /\ getNet' = g.net
          /\ getValue' = g.value
    /\ lastOp' = "Get"
    /\ lastArg' = <<ip>>
    /\ lastErr' = "none"
    /\ numBytes' = 0
    /\ out' = <<>>
    /\ UNCHANGED <<pc, ipVersion, recordSize, treeDepth, root, nodeCount, buildEpoch,
                   inserted, finalized, voided, pk>>

DoFinalize ==
    /\ pc = "ready"
    /\ LET f == Finalize(root)
       IN /\ root' = f.root
          /\ nodeCount' = f.nodeCount
    /\ lastOp' = "Finalize"
    /\ lastArg' = <<>>
    /\ lastErr' = "none"
    /\ finalized' = TRUE
    /\ voided' = FALSE
    /\ getNet' = NoNet
    /\ getValue' = Nil
    /\ numBytes' = 0
    /\ out' = <<>>
    /\ UNCHANGED <<pc, ipVersion, recordSize, treeDepth, buildEpoch, inserted, pk>>

DoWriteTo ==
    /\ pc = "ready"
    /\ LET w == WriteTo(recordSize, nodeCount, ipVersion, root, buildEpoch)
       IN /\ numBytes' = w.n
          /\ lastErr' = w.err
          /\ out' = w.recs
    /\ lastOp' = "WriteTo"
    /\ lastArg' = <<>>
    /\ getNet' = NoNet
    /\ getValue' = Nil
    /\ UNCHANGED <<pc, ipVersion, recordSize, treeDepth, root, nodeCount, buildEpoch,
                   inserted, finalized, voided, pk>>

\* Spec: every operation of a Tree, in any order
Next ==
    \/ \E opts \in OptionsSet, now \in Clock : DoNew(opts, now)
    \/ \E network \in Networks, value \in Values : DoInsert(network, value)
    \/ \E ip \in Addrs : DoGet(ip)
    \/ DoFinalize
    \/ DoWriteTo

Spec == Init /\ [][Next]_vars

\* ---------------------------------------------------------------- the packer alone

\* the record values the packer is given: the values within PackSpread of a
\* byte or nibble boundary, below 2^rs (and within 31 bits)
MaxRecordValue(rs) == IF rs = 32 THEN (Pow2(30) - 1) * 2 + 1 ELSE Pow2(rs) - 1

Boundaries(rs) ==
    {0, Pow2(4), Pow2(8), Pow2(12), Pow2(16), Pow2(20), Pow2(24), Pow2(28),
     MaxRecordValue(rs) - PackSpread}

RecordValues(rs) ==
    {v \in {b + d : b \in Boundaries(rs), d \in (0 - PackSpread)..PackSpread} :
        v >= 0 /\ v <= MaxRecordValue(rs)}

InitPack ==
    /\ pc = "pack"
    /\ ipVersion = 0
    /\ recordSize = 0
    /\ treeDepth = 0
    /\ root = emptyNode
    /\ nodeCount = 0
    /\ buildEpoch = 0
    /\ lastOp = "none"
    /\ lastArg = <<>>
    /\ lastErr = "none"
    /\ getNet = NoNet
    /\ getValue = Nil
    /\ numBytes = 0
    /\ out = <<>>
    /\ inserted = <<>>
    /\ finalized = FALSE
    /\ voided = FALSE
    /\ \E rs \in {24, 28, 32} :
           \E l \in RecordValues(rs), r \in RecordValues(rs) :
               pk = [rs |-> rs, left |-> l, right |-> r, buf |-> <<>>, done |-> FALSE]

DoPack ==
    /\ pc = "pack"
    /\ ~pk.done
    /\ pk' = [pk EXCEPT !.buf = packRecord(pk.rs, pk.left, pk.right), !.done = TRUE]
    /\ UNCHANGED <<pc, ipVersion, recordSize, treeDepth, root, nodeCount, buildEpoch,
                   lastOp, lastArg, lastErr, getNet, getValue, numBytes, out, inserted,
                   finalized, voided>>

NextPack == DoPack

SpecPack == InitPack /\ [][NextPack]_vars

\* ---------------------------------------------------------------- properties

\* net.IPNet.Contains: both sides in 4-byte form where they have one; addresses
\* of different lengths are never contained
Contains(network, ip) ==
    LET nn == IF To4(network.IP) # <<>> THEN To4(network.IP) ELSE network.IP
        m == IF Len(network.Mask) = IPv6len /\ Len(nn) = IPv4len
             THEN SubSeq(network.Mask, 13, 16) ELSE network.Mask
        x == IF To4(ip) # <<>> THEN To4(ip) ELSE ip
    IN /\ Len(x) = Len(nn)
       /\ Len(m) = Len(nn)
       /\ \A i \in 1..Len(x) : AndMaskByte(x[i], m[i]) = AndMaskByte(nn[i], m[i])

\* the value of the latest of the inserted networks that contains ip, Nil when
\* none does
LastWrite(ins, ip) ==
    LET hits == {i \in 1..Len(ins) : Contains(ins[i].network, ip)}
    IN IF hits = {} THEN Nil
       ELSE ins[CHOOSE i \in hits : \A j \in hits : j <= i].value

\* the two record values a reader of the MMDB layout takes from a node record
Unpack(rs, buf) ==
    IF rs = 24
    THEN <<buf[1] * Pow2(16) + buf[2] * Pow2(8) + buf[3],
           buf[4] * Pow2(16) + buf[5] * Pow2(8) + buf[6]>>
    ELSE IF rs = 28
    THEN <<(buf[4] \div 16) * Pow2(24) + buf[1] * Pow2(16) + buf[2] * Pow2(8) + buf[3],
           (buf[4] % 16) * Pow2(24) + buf[5] * Pow2(16) + buf[6] * Pow2(8) + buf[7]>>
    ELSE <<buf[1] * Pow2(24) + buf[2] * Pow2(16) + buf[3] * Pow2(8) + buf[4],
           buf[5] * Pow2(24) + buf[6] * Pow2(16) + buf[7] * Pow2(8) + buf[8]>>

\* the node numbers of the internal nodes under n
RECURSIVE NodeNums(_)
NodeNums(n) ==
    IF isLeaf(n) THEN {}
    ELSE {n.nodeNum} \cup NodeNums(n.children[1]) \cup NodeNums(n.children[2])

\* C1: after any sequence of successful Inserts on a fresh Tree, Get of an
\* address returns the value of the most recently inserted network that
\* contains the address, and no value when no inserted network contains it.
C1_GetLastWriteWins ==
    lastOp = "Get" => getValue = LastWrite(inserted, lastArg[1])

\* C2: WriteTo returns NotFinalized, with byte count 0 and nothing written,
\* exactly when no Finalize has run since construction or since the most recent
\* Insert; after a Finalize that no Insert followed it never does, whatever was
\* or was not inserted.
C2_NotFinalizedIffNoFinalize ==
    lastOp = "WriteTo" =>
        /\ (lastErr = "NotFinalized") <=> ~finalized
        /\ lastErr = "NotFinalized" => (numBytes = 0 /\ out = <<>>)

\* C3: an Insert of a network with prefix length 0 returns InvalidPrefix and
\* leaves the trie as it was: the root is the same and Get of every address
\* returns the same network and value as before the call.
C3_InvalidPrefixLeavesTrie ==
    [][(lastOp' = "Insert" /\ MaskOnes(lastArg'[1].Mask) = 0) =>
          /\ lastErr' = "InvalidPrefix"
          /\ root' = root
          /\ inserted' = inserted
          /\ \A ip \in Addrs : Get(treeDepth', root', ip) = Get(treeDepth, root, ip)]_vars

\* C3's case: a prefix-length-0 Insert has failed on a Tree that holds networks
C3_Witness ==
    /\ lastOp = "Insert"
    /\ MaskOnes(lastArg[1].Mask) = 0
    /\ lastErr = "InvalidPrefix"
    /\ ~isLeaf(root)
    /\ Get(treeDepth, root, Addr1).value # Nil

\* C4: on a Tree built with ip-version 4, an Insert of a network whose address
\* has 16 bytes returns UnsupportedAddress and does not modify the trie.
C4_V4TreeRejectsV6Network ==
    [][(lastOp' = "Insert" /\ ipVersion' = 4 /\ Len(lastArg'[1].IP) = IPv6len) =>
          (lastErr' = "UnsupportedAddress" /\ root' = root)]_vars

\* C5: New returns a Tree only when the effective ip-version is 4 or 6 and the
\* effective record-size is 24, 28 or 32, so no constructed Tree holds another
\* record-size; otherwise it returns UnsupportedIPVersion or
\* UnsupportedRecordSize and no Tree.
C5_NewValidatesOptions ==
    /\ pc = "ready" => (ipVersion \in {4, 6} /\ recordSize \in {24, 28, 32})
    /\ pc = "failed" => lastErr \in {"UnsupportedIPVersion", "UnsupportedRecordSize"}

\* C6: WriteTo never hands the sink a node record packed from a record value
\* that does not fit in record-size bits: when a record value is too large it
\* returns RecordOverflow instead.
C6_NoTruncatedRecord ==
    lastOp = "WriteTo" =>
        \A k \in 1..Len(out) :
            /\ out[k].left < Pow2(recordSize)
            /\ out[k].right < Pow2(recordSize)

\* C7: in a Tree of IPv6 depth that holds one IPv4 network of prefix length p,
\* Get of an IPv4 address inside the network returns a network of prefix
\* length p, in the 4-byte form of the address and in its 16-byte form alike.
C7_V4PrefixLengthInV6Tree ==
    (/\ lastOp = "Get"
     /\ treeDepth = IPv6Bits
     /\ Len(inserted) = 1
     /\ Len(inserted[1].network.IP) = IPv4len
     /\ Contains(inserted[1].network, lastArg[1]))
        => MaskOnes(getNet.Mask) = MaskOnes(inserted[1].network.Mask)

\* C8: for each record size of 24, 28 and 32 bits and record values below
\* 2^record-size, the record buffer copyRecord fills has 2 * record-size / 8
\* bytes and a reader of the MMDB layout takes the same two values from it.
C8_PackedRecordRoundTrip ==
    (pc = "pack" /\ pk.done) =>
        /\ Len(pk.buf) = (2 * pk.rs) \div 8
        /\ \A i \in 1..Len(pk.buf) : pk.buf[i] \in 0..255
        /\ Unpack(pk.rs, pk.buf) = <<pk.left, pk.right>>

\* C8's case: a 28-bit record packed from two values with different, non-zero
\* high nibbles
C8_Witness ==
    /\ pc = "pack"
    /\ pk.done
    /\ pk.rs = 28
    /\ Shr(pk.left, 24) > 0
    /\ Shr(pk.right, 24) > 0
    /\ Shr(pk.left, 24) # Shr(pk.right, 24)

\* C9: after Finalize the internal nodes carry the numbers 0..node-count-1,
\* the root 0; the k-th record WriteTo hands the sink (k from 0) is the record
\* of the node numbered k; a WriteTo that returns no error has written
\* node-count records; and WriteTo never returns InternalInconsistency.
C9_NodeSectionIndexedByNodeNum ==
    /\ finalized =>
           /\ NodeNums(root) = 0..(nodeCount - 1)
           /\ ~isLeaf(root) => root.nodeNum = 0
    /\ lastOp = "WriteTo" =>
           /\ lastErr # "InternalInconsistency"
           /\ \A k \in 1..Len(out) : out[k].nodeNum = k - 1
           /\ lastErr = "none" => Len(out) = nodeCount

\* C9's case: a complete node section of a trie in which some node has two
\* internal children
C9_Witness ==
    /\ lastOp = "WriteTo"
    /\ lastErr = "none"
    /\ Len(out) = nodeCount
    /\ \E k \in 1..Len(out) : out[k].left < nodeCount /\ out[k].right < nodeCount

\* C10: every Insert leaves node-count at 0, also one that returns
\* InvalidPrefix; after such an Insert on a finalized Tree, WriteTo returns
\* NotFinalized with byte count 0 until Finalize runs again.
C10_FailedInsertVoidsFinalize ==
    /\ lastOp = "Insert" => nodeCount = 0
    /\ voided => nodeCount = 0
    /\ (voided /\ lastOp = "WriteTo") =>
           (lastErr = "NotFinalized" /\ numBytes = 0 /\ out = <<>>)

\* C10's case: WriteTo after an InvalidPrefix Insert took a non-empty Tree's
\* finalization away
C10_Witness ==
    /\ voided
    /\ lastOp = "WriteTo"
    /\ lastErr = "NotFinalized"
    /\ ~isLeaf(root)

====
